---- MODULE Spec2Model ----
(***************************************************************************)
(* Model of the Ask-AI Support Coach demo (src/app.py): the Streamlit      *)
(* session state, the button handlers that change it, and the response     *)
(* decoder of evaluate_ticket.                                             *)
(*                                                                         *)
(* Text is a sequence of units.  A unit is [q, c]: q = FALSE is a single   *)
(* character c (or an indivisible run of characters that are neither       *)
(* whitespace, backticks nor JSON punctuation); q = TRUE is a complete     *)
(* JSON string literal, quotes included, whose content is c.               *)
(*                                                                         *)
(* A Python value obtained from json.loads is a record                     *)
(*   [t, n, s, kv, raw]                                                    *)
(* t: "None" | "int" | "str" | "list" | "dict"; n: the int; s: the str;    *)
(* kv: the <<key, value>> members of a dict (key "" for list items);       *)
(* raw: a str held as text units (only raw_output of line 224 uses it).    *)
(***************************************************************************)
EXTENDS Integers, Sequences, FiniteSets, TLC

----------------------------------------------------------------------------
(* Text units *)

Ch(c) == [q |-> FALSE, c |-> c]

Lit(s) == [q |-> TRUE, c |-> s]

Text(chars) == [i \in 1..Len(chars) |-> Ch(chars[i])]

\* str.strip() without arguments strips every character str.isspace() accepts
PyWhitespace == {" ", "\n", "\t", "\r", "\f"}

\* the json scanner skips only these four
JsonWhitespace == {" ", "\n", "\t", "\r"}

Digits == {"0", "1", "2", "3", "4", "5", "6", "7", "8", "9"}

DigitValue(c) ==
  CASE c = "0" -> 0 [] c = "1" -> 1 [] c = "2" -> 2 [] c = "3" -> 3
    [] c = "4" -> 4 [] c = "5" -> 5 [] c = "6" -> 6 [] c = "7" -> 7
    [] c = "8" -> 8 [] OTHER -> 9

DigitChar(d) ==
  CASE d = 0 -> "0" [] d = 1 -> "1" [] d = 2 -> "2" [] d = 3 -> "3"
    [] d = 4 -> "4" [] d = 5 -> "5" [] d = 6 -> "6" [] d = 7 -> "7"
    [] d = 8 -> "8" [] OTHER -> "9"

IsCharIn(u, chars) == ~u.q /\ u.c \in chars

RECURSIVE LStripChars(_, _)
LStripChars(s, chars) ==
  IF s # <<>> /\ IsCharIn(Head(s), chars) THEN LStripChars(Tail(s), chars) ELSE s

RECURSIVE RStripChars(_, _)
RStripChars(s, chars) ==
  IF s # <<>> /\ IsCharIn(s[Len(s)], chars)
  THEN RStripChars(SubSeq(s, 1, Len(s) - 1), chars)
  ELSE s

\* str.strip(chars)
StripChars(s, chars) == RStripChars(LStripChars(s, chars), chars)

StripSpacesOnly(s) == StripChars(s, {" "})

\* str.strip()
Strip(s) == StripChars(s, PyWhitespace)

LowerChar(c) ==
  CASE c = "J" -> "j" [] c = "S" -> "s" [] c = "O" -> "o" [] c = "N" -> "n"
    [] c = "A" -> "a" [] c = "G" -> "g" [] c = "E" -> "e" [] c = "T" -> "t"
    [] c = "C" -> "c" [] c = "U" -> "u"
    [] OTHER -> c

UpperChar(c) ==
  CASE c = "j" -> "J" [] c = "s" -> "S" [] c = "o" -> "O" [] c = "n" -> "N"
    [] c = "a" -> "A" [] c = "g" -> "G" [] c = "e" -> "E" [] c = "t" -> "T"
    [] c = "c" -> "C" [] c = "u" -> "U"
    [] OTHER -> c

\* str.lower()
Lower(s) == [i \in 1..Len(s) |-> [q |-> s[i].q, c |-> LowerChar(s[i].c)]]

\* str.startswith(prefix), where prefix is made of plain characters
StartsWith(s, prefix) ==
  /\ Len(s) >= Len(prefix)
  /\ \A i \in 1..Len(prefix) : ~s[i].q /\ s[i].c = prefix[i]

\* s[k:]
SliceFrom(s, k) == SubSeq(s, k + 1, Len(s))

----------------------------------------------------------------------------
(* Python values *)

PyNone == [t |-> "None", n |-> 0, s |-> "", kv |-> <<>>, raw |-> <<>>]

PyInt(i) == [t |-> "int", n |-> i, s |-> "", kv |-> <<>>, raw |-> <<>>]

PyStr(x) == [t |-> "str", n |-> 0, s |-> x, kv |-> <<>>, raw |-> <<>>]

PyRawStr(text) == [t |-> "str", n |-> 0, s |-> "", kv |-> <<>>, raw |-> text]

PyList(items) ==
  [t |-> "list", n |-> 0, s |-> "",
   kv |-> [i \in 1..Len(items) |-> <<"", items[i]>>], raw |-> <<>>]

PyDict(members) == [t |-> "dict", n |-> 0, s |-> "", kv |-> members, raw |-> <<>>]

EmptyDict == PyDict(<<>>)

IsDict(v) == v.t = "dict"

\* bool(v)
Truthy(v) ==
  CASE v.t = "None" -> FALSE
    [] v.t = "int" -> v.n # 0
    [] v.t = "str" -> v.s # "" \/ v.raw # <<>>
    [] OTHER -> v.kv # <<>>

\* key in d, for a dict d
HasKey(d, key) == \E i \in 1..Len(d.kv) : d.kv[i][1] = key

\* d.get(key, default), for a dict d
DictGet(d, key, default) ==
  IF HasKey(d, key)
  THEN d.kv[CHOOSE i \in 1..Len(d.kv) : d.kv[i][1] = key][2]
  ELSE default

\* a or {}
OrEmptyDict(v) == IF Truthy(v) THEN v ELSE EmptyDict

----------------------------------------------------------------------------
(* json.dumps and json.loads on text units *)

RECURSIVE DumpInt(_)
DumpInt(n) ==
  IF n < 10 THEN <<Ch(DigitChar(n))>>
  ELSE DumpInt(n \div 10) \o <<Ch(DigitChar(n % 10))>>

RECURSIVE Dumps(_), DumpMembers(_, _)

\* json.dumps(v) with the default separators ", " and ": "
Dumps(v) ==
  CASE v.t = "None" -> Text(<<"n", "u", "l", "l">>)
    [] v.t = "int" -> DumpInt(v.n)
    [] v.t = "str" -> <<Lit(v.s)>>
    [] v.t = "list" -> <<Ch("[")>> \o DumpMembers(v.kv, FALSE) \o <<Ch("]")>>
    [] OTHER -> <<Ch("{")>> \o DumpMembers(v.kv, TRUE) \o <<Ch("}")>>

DumpMembers(kv, withKeys) ==
  IF kv = <<>> THEN <<>>
  ELSE LET m == Head(kv)
           one == (IF withKeys THEN <<Lit(m[1]), Ch(":"), Ch(" ")>> ELSE <<>>)
                    \o Dumps(m[2])
       IN IF Len(kv) = 1 THEN one
          ELSE one \o <<Ch(","), Ch(" ")>> \o DumpMembers(Tail(kv), withKeys)

ParseFail == [ok |-> FALSE, v |-> PyNone, rest |-> <<>>]

ParseOk(v, rest) == [ok |-> TRUE, v |-> v, rest |-> rest]

SkipWs(s) == LStripChars(s, JsonWhitespace)

IsChar(s, c) == s # <<>> /\ ~Head(s).q /\ Head(s).c = c

RECURSIVE DigitRun(_, _)
DigitRun(s, acc) ==
  IF s # <<>> /\ IsCharIn(Head(s), Digits)
  THEN DigitRun(Tail(s), acc * 10 + DigitValue(Head(s).c))
  ELSE ParseOk(PyInt(acc), s)

\* a JSON integer: "0", or a run of digits that does not start with "0"
ParseNumber(s) ==
  IF IsChar(s, "0") THEN ParseOk(PyInt(0), Tail(s)) ELSE DigitRun(s, 0)

RECURSIVE ParseValue(_), ParseMembers(_, _), ParseItems(_, _)

\* one JSON value at the start of s (whitespace already skipped)
ParseValue(s) ==
  CASE s = <<>> -> ParseFail
    [] s # <<>> /\ Head(s).q -> ParseOk(PyStr(Head(s).c), Tail(s))
    [] IsChar(s, "{") ->
         LET s1 == SkipWs(Tail(s))
         IN IF IsChar(s1, "}") THEN ParseOk(EmptyDict, Tail(s1))
            ELSE ParseMembers(s1, <<>>)
    [] IsChar(s, "[") ->
         LET s1 == SkipWs(Tail(s))
         IN IF IsChar(s1, "]") THEN ParseOk(PyList(<<>>), Tail(s1))
            ELSE ParseItems(s1, <<>>)
    [] s # <<>> /\ IsCharIn(Head(s), Digits) -> ParseNumber(s)
    [] StartsWith(s, <<"n", "u", "l", "l">>) -> ParseOk(PyNone, SliceFrom(s, 4))
    [] OTHER -> ParseFail

\* d[key] = v on the member list of a dict: a repeated key keeps its place
DictSet(kv, key, v) ==
  IF \E i \in 1..Len(kv) : kv[i][1] = key
  THEN [i \in 1..Len(kv) |-> IF kv[i][1] = key THEN <<key, v>> ELSE kv[i]]
  ELSE Append(kv, <<key, v>>)

\* the members of an object, s at a key
ParseMembers(s, acc) ==
  IF s = <<>> \/ ~Head(s).q THEN ParseFail
  ELSE LET key == Head(s).c
           s2 == SkipWs(Tail(s))
       IN IF ~IsChar(s2, ":") THEN ParseFail
          ELSE LET r == ParseValue(SkipWs(Tail(s2)))
                   s4 == SkipWs(r.rest)
                   acc2 == DictSet(acc, key, r.v)
               IN CASE ~r.ok -> ParseFail
                    [] r.ok /\ IsChar(s4, "}") -> ParseOk(PyDict(acc2), Tail(s4))
                    [] r.ok /\ IsChar(s4, ",") -> ParseMembers(SkipWs(Tail(s4)), acc2)
                    [] OTHER -> ParseFail

\* the items of an array, s at an item
ParseItems(s, acc) ==
  LET r == ParseValue(s)
      s4 == SkipWs(r.rest)
      acc2 == Append(acc, <<"", r.v>>)
  IN CASE ~r.ok -> ParseFail
       [] r.ok /\ IsChar(s4, "]") ->
            ParseOk([t |-> "list", n |-> 0, s |-> "", kv |-> acc2, raw |-> <<>>], Tail(s4))
       [] r.ok /\ IsChar(s4, ",") -> ParseItems(SkipWs(Tail(s4)), acc2)
       [] OTHER -> ParseFail

\* json.loads(s): .ok = FALSE stands for the JSONDecodeError it raises
json_loads(s) ==
  LET r == ParseValue(SkipWs(s))
  IN IF r.ok /\ SkipWs(r.rest) = <<>> THEN r ELSE ParseFail

----------------------------------------------------------------------------
(* normalize_zendesk_ticket *)

\* str.capitalize(): the first character in upper case, the rest in lower case
Capitalize(s) ==
  IF s = <<>> THEN s
  ELSE <<[q |-> s[1].q, c |-> UpperChar(s[1].c)]>> \o Lower(Tail(s))

\* sep.join(parts)
RECURSIVE Join(_, _)
Join(sep, parts) ==
  IF parts = <<>> THEN <<>>
  ELSE IF Len(parts) = 1 THEN parts[1]
  ELSE parts[1] \o sep \o Join(sep, Tail(parts))

\* the items of a list
ItemsOf(list) == [i \in 1..Len(list.kv) |-> list.kv[i][2]]

Unknown == Text(<<"u", "n", "k", "n", "o", "w", "n">>)

SubjectPrefix == <<Ch("Subject"), Ch(":"), Ch(" ")>>

\* line 81
AuthorRole(c) ==
  LET stripped == Strip(DictGet(c, "author_role", PyRawStr(Unknown)).raw)
  IN IF stripped # <<>> THEN stripped ELSE Unknown

\* lines 76-78
SubjectParts(subject) ==
  IF Truthy(subject) THEN <<SubjectPrefix \o subject.raw>> ELSE <<>>

\* lines 80-86: the loop over the comments, parts being the list built so far
RECURSIVE CommentParts(_, _)
CommentParts(comments, parts) ==
  IF comments = <<>> THEN parts
  ELSE LET c == Head(comments)
           author_role == AuthorRole(c)
           body == Strip(DictGet(c, "body", PyRawStr(<<>>)).raw)
       IN IF body = <<>>
          THEN CommentParts(Tail(comments), parts)
          ELSE CommentParts(Tail(comments),
                            Append(parts, Capitalize(author_role) \o <<Ch(":"), Ch(" ")>> \o body))

\* lines 68-88
normalize_zendesk_ticket(zendesk_ticket) ==
  LET subject == DictGet(zendesk_ticket, "subject", PyRawStr(<<>>))
      comments == DictGet(zendesk_ticket, "comments", PyList(<<>>))
  IN Join(<<Ch("\n"), Ch("\n")>>, CommentParts(ItemsOf(comments), SubjectParts(subject)))

Comment(author_role, body) ==
  PyDict(<< <<"author_role", PyRawStr(author_role)>>, <<"body", PyRawStr(body)>> >>)

\* lines 32-65, each subject and body as one run of text
MOCK_ZENDESK_TICKET ==
  PyDict(<<
    <<"id", PyInt(98765)>>,
    <<"subject", PyRawStr(<<Ch("Same billing issue again - why wasn't this fixed?")>>)>>,
    <<"comments", PyList(<<
        Comment(Text(<<"c", "u", "s", "t", "o", "m", "e", "r">>), <<Ch("body 1")>>),
        Comment(Text(<<"a", "g", "e", "n", "t">>), <<Ch("body 2")>>),
        Comment(Text(<<"c", "u", "s", "t", "o", "m", "e", "r">>), <<Ch("body 3")>>),
        Comment(Text(<<"a", "g", "e", "n", "t">>), <<Ch("body 4")>>) >>)>> >>)

----------------------------------------------------------------------------
(* evaluate_ticket: the completion gateway's answer and the decoder *)

\* a chat completion: the call raised (status "failed"), or it returned a
\* message whose content is None or a text
TransportFailure == [status |-> "failed", none |-> FALSE, content |-> <<>>]

NoContent == [status |-> "ok", none |-> TRUE, content |-> <<>>]

Completion(text) == [status |-> "ok", none |-> FALSE, content |-> text]

\* the chat completion call raised instead of returning (no try around it)
TransportSwallowed(resp) == FALSE

TransportFailed(resp) == resp.status = "failed"

\* response.choices[0].message.content or ""
RawContent(resp) == IF resp.none THEN <<>> ELSE resp.content

\* the backtick character (TLA+ strings cannot hold it)
Backtick == "BACKTICK"

FenceMarker == <<Backtick, Backtick, Backtick>>

JsonToken == <<"j", "s", "o", "n">>

UnfencedOffByOne(fenced) ==
  LET stripped == StripChars(fenced, {Backtick})
  IN IF StartsWith(Lower(stripped), JsonToken)
     THEN Strip(SliceFrom(stripped, 3))
     ELSE stripped

\* lines 218-220: the fenced text without its backticks and its json token
Unfenced(fenced) ==
  LET stripped == StripChars(fenced, {Backtick})
  IN IF StartsWith(Lower(stripped), JsonToken)
     THEN Strip(SliceFrom(stripped, 4))
     ELSE stripped

\* lines 216-220: what is handed to json.loads
Cleaned(content) ==
  LET text == Strip(content)
  IN IF StartsWith(text, FenceMarker) THEN Unfenced(text) ELSE text

ParseErrorMessage == "Failed to parse model output as JSON"

DecodeFailureOfCleaned(content) ==
  PyDict(<< <<"error", PyStr(ParseErrorMessage)>>,
            <<"raw_output", PyRawStr(Cleaned(content))>> >>)

\* line 224: the dict returned by the except branch
DecodeFailure(content) ==
  PyDict(<< <<"error", PyStr(ParseErrorMessage)>>,
            <<"raw_output", PyRawStr(content)>> >>)

\* lines 215-224
Decode(content) ==
  LET parsed == json_loads(Cleaned(content))
  IN IF parsed.ok THEN parsed.v ELSE DecodeFailure(content)

\* evaluate_ticket, given what the completion call returned (lines 212-224)
evaluate_ticket(resp) == Decode(RawContent(resp))

\* generate_kb_article and generate_team_insights return the content or ""
MarkdownOf(resp) == RawContent(resp)

----------------------------------------------------------------------------
(* Inputs: tickets *)

\* the keys of SAMPLE_TICKETS the session uses (two of the four)
SampleKeys == {"Assignment example", "Agent issue"}

\* each sample transcript is one indivisible run of text
SAMPLE_TICKETS == [k \in SampleKeys |-> <<Ch(k)>>]

DEFAULT_EXAMPLE == SAMPLE_TICKETS["Assignment example"]

\* what the user can leave in the text area besides a sample: nothing, or
\* whitespace only
TypedTexts == {<<>>, Text(<<" ", "\n">>)}

TicketTexts == {SAMPLE_TICKETS[k] : k \in SampleKeys} \cup TypedTexts

\* hashlib.sha256(text.encode("utf-8")).hexdigest(): distinct texts, distinct digests
sha256_hexdigest(text) == [sha256_of |-> text]

----------------------------------------------------------------------------
(* Inputs: what the model answers *)

Criterion(score) ==
  PyDict(<< <<"score", PyInt(score)>>, <<"justification", PyStr("because")>> >>)

\* a record of the schema of lines 151-184
SchemaRecord(criterion, overall, label, suggestion, coaching) ==
  PyDict(<<
    <<"criteria", PyDict(<<
        <<"technical_accuracy", Criterion(criterion)>>,
        <<"clarity_and_tone", Criterion(criterion)>>,
        <<"diagnostic_depth", Criterion(criterion)>>,
        <<"ownership_and_follow_through", Criterion(criterion)>>,
        <<"escalation_judgment", Criterion(criterion)>> >>)>>,
    <<"overall_rating", Criterion(overall)>>,
    <<"root_cause", PyDict(<<
        <<"label", PyStr(label)>>,
        <<"explanation", PyStr("why")>>,
        <<"kb_article_suggestion", PyStr(suggestion)>> >>)>>,
    <<"coaching_summary", PyStr(coaching)>> >>)

AgentIssue == SchemaRecord(4, 4, "agent_performance", "KB idea", "coach A")

ContentGap == SchemaRecord(2, 2, "content_gap", "KB idea", "coach B")

MixedNoSummary == SchemaRecord(3, 3, "mixed", "KB idea", "")

GapNoIdea == SchemaRecord(3, 3, "content_gap", "", "")

MixedIssue == SchemaRecord(3, 3, "mixed", "KB idea", "coach A")

OutOfRange == SchemaRecord(0, 9, "product_bug", "", "coach B")

NoLabel ==
  PyDict(<< <<"root_cause", PyDict(<< <<"kb_article_suggestion", PyStr("KB idea")>> >>)>>,
            <<"coaching_summary", PyStr("coach A")>> >>)

\* an object that lacks the criteria, the overall rating and the explanation
PartialMixed ==
  PyDict(<< <<"root_cause", PyDict(<< <<"label", PyStr("mixed")>>,
                                      <<"kb_article_suggestion", PyStr("KB idea")>> >>)>>,
            <<"coaching_summary", PyStr("coach A")>> >>)

\* records that follow the schema's shape (soft violations included)
SchemaRecords == {AgentIssue, ContentGap, MixedNoSummary, GapNoIdea, OutOfRange}

\* JSON that parses but is not a record of the schema
WrongShapes ==
  { PyList(<<>>),
    PyInt(7),
    PyNone,
    PyDict(<< <<"error", PyStr("no ticket given")>> >>),
    PyDict(<< <<"root_cause", PyStr("content_gap")>>, <<"coaching_summary", PyStr("coach A")>> >>),
    NoLabel }

Truncated(text) == SubSeq(text, 1, Len(text) - 1)

Prose == Text(<<"x", " ", "x">>)

\* how many whitespace characters surround a completion
MaxPadding == 1

RECURSIVE Paddings(_)
Paddings(k) ==
  IF k = 0 THEN {<<>>}
  ELSE Paddings(k - 1)
         \cup {<<Ch(c)>> \o p : c \in {"\n", "\f"}, p \in {q \in Paddings(k - 1) : Len(q) = k - 1}}

Newline == <<Ch("\n")>>

\* a JSON text inside a fence that carries the token json, in either case
JsonFencedForms(body) ==
  { Text(FenceMarker \o JsonToken) \o Newline \o body \o Newline \o Text(FenceMarker),
    Text(FenceMarker \o <<"J", "S", "O", "N">>) \o body \o Text(FenceMarker) }

\* the ways a completion presents a JSON text: bare, inside a json fence,
\* or inside a fence without token
Wrapped(body) ==
  {body, Text(FenceMarker) \o Newline \o body \o Newline \o Text(FenceMarker)}
    \cup JsonFencedForms(body)

JsonFenced(body) ==
  Text(FenceMarker \o JsonToken) \o Newline \o body \o Newline \o Text(FenceMarker)

Unparseable ==
  { Truncated(Dumps(AgentIssue)), Dumps(ContentGap) \o Prose, Prose, <<>> }

DecoderTexts ==
  { pad \o w \o pad :
      pad \in Paddings(MaxPadding),
      w \in UNION {Wrapped(body) :
                     body \in {Dumps(r) : r \in SchemaRecords \cup WrongShapes} \cup Unparseable} }

\* completions of the evaluation call, one ticket evaluated again and again
DecoderResponses == {NoContent} \cup {Completion(text) : text \in DecoderTexts}

\* completions of the evaluation call in a session of several tickets
EvalResponses ==
  { TransportFailure,
    Completion(Dumps(AgentIssue)),
    Completion(JsonFenced(Dumps(ContentGap))),
    Completion(Dumps(MixedNoSummary)),
    Completion(Dumps(PyList(<<>>))),
    Completion(Truncated(Dumps(AgentIssue))) }

\* completions of the evaluation call in a session that drafts KB articles
KbResponses ==
  { Completion(Dumps(ContentGap)),
    Completion(Dumps(AgentIssue)),
    Completion(Dumps(PartialMixed)),
    Completion(Truncated(Dumps(AgentIssue))) }

\* evaluate_ticket on every completion of the model, computed once
Evaluations ==
  [resp \in EvalResponses \cup DecoderResponses \cup KbResponses |-> evaluate_ticket(resp)]

\* completions of the KB and team-insights calls
MarkdownResponses == {TransportFailure, Completion(<<Ch("# Markdown")>>)}

----------------------------------------------------------------------------
(* Session state (st.session_state) *)

VARIABLES
  ticket_text,            \* the text area's content
  last_result,            \* PyNone or what evaluate_ticket returned
  last_ticket_text,
  kb_draft,
  coaching_history,       \* sequence of coaching records
  coaching_keys,          \* sequence of transcript digests
  team_insights,
  current_ticket_label,
  event,                  \* history: what the last script run did ("idle": no handler wrote)
  raw_content,            \* history: the completion text last_result was decoded from
  kb_source,              \* history: the call whose return value kb_draft holds
  insights_source,        \* history: the call whose return value team_insights holds
  script_runs,            \* the script runs that are inside the run_eval handler
  zendesk_payload,        \* the ticket the appendix shows
  normalized_example      \* the transcript the appendix shows for it

session ==
  << ticket_text, last_result, last_ticket_text, kb_draft, coaching_history,
     coaching_keys, team_insights, current_ticket_label >>

history_vars == << raw_content, kb_source, insights_source >>

\* what the appendix of lines 892-896 works on
appendix == << zendesk_payload, normalized_example >>

vars == << session, event, history_vars, script_runs, appendix >>

\* the script runs of one session that can be inside the run_eval handler
Runs == {1, 2}

\* a script run outside the handler: it holds no local of lines 548-578
NotRunning == [pc |-> "idle", ticket_text |-> <<>>, result |-> PyNone, raw |-> <<>>]

NoCall == [called |-> FALSE, ticket |-> <<>>, suggestion |-> PyNone, items |-> <<>>]

KbCall(ticket, suggestion) ==
  [called |-> TRUE, ticket |-> ticket, suggestion |-> suggestion, items |-> <<>>]

InsightsCall(items) ==
  [called |-> TRUE, ticket |-> <<>>, suggestion |-> PyNone, items |-> items]

\* lines 457-479
Init ==
  /\ ticket_text = DEFAULT_EXAMPLE
  /\ last_result = PyNone
  /\ last_ticket_text = <<>>
  /\ kb_draft = <<>>
  /\ coaching_history = <<>>
  /\ coaching_keys = <<>>
  /\ team_insights = <<>>
  /\ current_ticket_label = "Assignment example"
  /\ event = "start"
  /\ raw_content = <<>>
  /\ kb_source = NoCall
  /\ insights_source = NoCall
  /\ script_runs = [r \in Runs |-> NotRunning]
  /\ zendesk_payload = MOCK_ZENDESK_TICKET
  /\ normalized_example = normalize_zendesk_ticket(MOCK_ZENDESK_TICKET)

----------------------------------------------------------------------------
(* What the script does with a result *)

\* "error" in result, for a list or a dict
ErrorIn(result) ==
  IF IsDict(result) THEN HasKey(result, "error")
  ELSE \E i \in 1..Len(result.kv) : result.kv[i][2] = PyStr("error")

\* result.get("root_cause", {}) or {}
RootOf(result) == OrEmptyDict(DictGet(result, "root_cause", EmptyDict))

\* result.get("overall_rating", {}) or {}
OverallOf(result) == OrEmptyDict(DictGet(result, "overall_rating", EmptyDict))

\* lines 560-565 raise: "in" on None or an int, .get on a list, or .get on a
\* root_cause / overall_rating that is truthy and not a dict
HandlerRaises(result) ==
  CASE result.t \in {"None", "int", "str"} -> TRUE
    [] result.t = "list" -> ~ErrorIn(result)
    [] OTHER -> /\ ~ErrorIn(result)
                /\ (~IsDict(RootOf(result)) \/ ~IsDict(OverallOf(result)))

\* lines 572-577
CoachingRecord(label, overall_score, root_label, coaching) ==
  [label |-> label, overall_score |-> overall_score,
   root_cause |-> root_label, coaching_summary |-> coaching]

RecordOfClamped(result, label) ==
  LET score == DictGet(OverallOf(result), "score", PyStr("N/A"))
  IN CoachingRecord(label,
                    IF score.t = "int" /\ score.n > 5 THEN PyInt(5) ELSE score,
                    DictGet(RootOf(result), "label", PyStr("unknown")),
                    DictGet(result, "coaching_summary", PyStr("")))

\* the record lines 561-577 build from a dict without "error"
RecordOf(result, label) ==
  CoachingRecord(label,
                 DictGet(OverallOf(result), "score", PyStr("N/A")),
                 DictGet(RootOf(result), "label", PyStr("unknown")),
                 DictGet(result, "coaching_summary", PyStr("")))

\* lines 580-630 raise while showing the result
RenderRaises(result) ==
  CASE result.t = "None" -> FALSE
    [] result.t # "None" /\ ~IsDict(result) -> TRUE
    [] OTHER ->
         IF ErrorIn(result) THEN FALSE
         ELSE LET criteria == DictGet(result, "criteria", EmptyDict)
                  overall == DictGet(result, "overall_rating", EmptyDict)
                  root == DictGet(result, "root_cause", EmptyDict)
              IN \/ ~IsDict(overall)
                 \/ Truthy(criteria) /\ ~IsDict(criteria)
                 \/ IsDict(criteria) /\ \E i \in 1..Len(criteria.kv) : ~IsDict(criteria.kv[i][2])
                 \/ ~IsDict(root)

\* line 649: ("content_gap", "mixed")
KbLabels == {PyStr("content_gap"), PyStr("mixed")}

\* lines 644-654: the script reaches the "Generate KB article draft" button
KbOffered(result) ==
  /\ ~RenderRaises(result)
  /\ Truthy(result)
  /\ ~ErrorIn(result)
  /\ Truthy(DictGet(RootOf(result), "kb_article_suggestion", PyStr("")))
  /\ DictGet(RootOf(result), "label", PyStr("")) \in KbLabels

RECURSIVE CounterOfFlags(_)
CounterOfFlags(items) ==
  IF items = <<>> THEN [k \in {} |-> 0]
  ELSE LET before == CounterOfFlags(SubSeq(items, 1, Len(items) - 1))
           key == items[Len(items)].root_cause
       IN [k \in (DOMAIN before) \cup {key} |-> IF k = key THEN 1 ELSE before[k]]

\* Counter(item.get("root_cause", "unknown") for item in history), as the
\* mapping from each key to its count
RECURSIVE Counter(_)
Counter(items) ==
  IF items = <<>> THEN [k \in {} |-> 0]
  ELSE LET before == Counter(SubSeq(items, 1, Len(items) - 1))
           key == items[Len(items)].root_cause
       IN [k \in (DOMAIN before) \cup {key} |->
             IF k = key
             THEN (IF key \in DOMAIN before THEN before[key] ELSE 0) + 1
             ELSE before[k]]

\* line 710
root_counts == Counter(coaching_history)

\* root_counts[label]: a Counter answers 0 for a key it does not hold
CountOf(counts, label) == IF label \in DOMAIN counts THEN counts[label] ELSE 0

\* Counter raises on an unhashable key (a list or a dict)
CounterRaises(items) ==
  \E i \in 1..Len(items) : items[i].root_cause.t \in {"list", "dict"}

\* lines 699-734: the script reaches the "Generate team-wide coaching document" button
InsightsOffered ==
  /\ ~RenderRaises(last_result)
  /\ coaching_history # <<>>
  /\ ~CounterRaises(coaching_history)

\* line 282 raises: .strip() on a coaching summary that is not a str
InsightsPromptRaises(items) ==
  \E i \in 1..Len(items) : items[i].coaching_summary.t # "str"

----------------------------------------------------------------------------
(* The button handlers *)

\* lines 529-535, sample_choice being "None" or a key of SAMPLE_TICKETS
LoadSample(sample_choice) ==
  IF sample_choice = "None"
  THEN /\ event' = "idle"
       /\ UNCHANGED << session, history_vars, script_runs, appendix >>
  ELSE /\ ticket_text' = SAMPLE_TICKETS[sample_choice]
       /\ last_result' = PyNone
       /\ kb_draft' = <<>>
       /\ kb_source' = NoCall
       /\ current_ticket_label' = sample_choice
       /\ last_ticket_text' = SAMPLE_TICKETS[sample_choice]
       /\ event' = "load"
       /\ raw_content' = <<>>
       /\ UNCHANGED << coaching_history, coaching_keys, team_insights, insights_source,
                       script_runs, appendix >>

\* lines 537-542: the user leaves another text in the text area
EditTicket(text) ==
  /\ text # ticket_text
  /\ ticket_text' = text
  /\ event' = "idle"
  /\ UNCHANGED << last_result, last_ticket_text, kb_draft, coaching_history,
                  coaching_keys, team_insights, current_ticket_label, history_vars,
                  script_runs, appendix >>

KeySeenLastOnly(keys, key) == keys # <<>> /\ keys[Len(keys)] = key

\* line 569: ticket_key in st.session_state["coaching_keys"]
KeySeen(keys, key) == \E i \in 1..Len(keys) : keys[i] = key

StoreKeyForgotten(keys, key) == keys

\* lines 569-570
StoreKey(keys, key) == IF KeySeen(keys, key) THEN keys ELSE Append(keys, key)

StoreRecordOverwriting(history, keys, key, record) ==
  IF KeySeen(keys, key)
  THEN [i \in 1..Len(history) |-> IF keys[i] = key THEN record ELSE history[i]]
  ELSE Append(history, record)

StoreRecordFirst(history, keys, key, record) ==
  IF KeySeen(keys, key) THEN history ELSE <<record>> \o history

\* lines 569-578
StoreRecord(history, keys, key, record) ==
  IF KeySeen(keys, key) THEN history ELSE Append(history, record)

EvalOutcomeSkippingChecks(result, seen) ==
  IF HandlerRaises(result) THEN "eval_raised"
  ELSE IF seen THEN "eval_duplicate"
  ELSE "eval_recorded"

\* what lines 560-578 do with the result
EvalOutcome(result, seen) ==
  CASE HandlerRaises(result) -> "eval_raised"
    [] ~HandlerRaises(result) /\ ErrorIn(result) -> "eval_decode_failure"
    [] OTHER ->
         IF ~Truthy(DictGet(result, "coaching_summary", PyStr(""))) THEN "eval_no_summary"
         ELSE IF seen THEN "eval_duplicate"
         ELSE "eval_recorded"

RunEvalKeepingInsights(resp) ==
  IF Strip(ticket_text) = <<>>
  THEN /\ event' = "eval_no_ticket"
       /\ UNCHANGED << session, history_vars, script_runs, appendix >>
  ELSE IF TransportFailed(resp)
  THEN /\ event' = "eval_transport_failure"
       /\ UNCHANGED << session, history_vars, script_runs, appendix >>
  ELSE LET result == Evaluations[resp]
           ticket_key == sha256_hexdigest(ticket_text)
           seen == KeySeen(coaching_keys, ticket_key)
           record == RecordOf(result, current_ticket_label)
           outcome == EvalOutcome(result, seen)
       IN /\ last_result' = result
          /\ last_ticket_text' = ticket_text
          /\ kb_draft' = <<>>
          /\ IF outcome \in {"eval_recorded", "eval_duplicate"}
             THEN /\ coaching_keys' = StoreKey(coaching_keys, ticket_key)
                  /\ coaching_history' =
                       StoreRecord(coaching_history, coaching_keys, ticket_key, record)
             ELSE UNCHANGED << coaching_keys, coaching_history >>
          /\ event' = outcome
          /\ raw_content' = RawContent(resp)
          /\ kb_source' = NoCall
          /\ UNCHANGED << ticket_text, current_ticket_label, team_insights, insights_source,
                          script_runs, appendix >>

\* lines 548-578, resp being what the completion call of evaluate_ticket does
RunEval(resp) ==
  IF Strip(ticket_text) = <<>>
  THEN /\ event' = "eval_no_ticket"
       /\ UNCHANGED << session, history_vars, script_runs, appendix >>
  ELSE IF TransportFailed(resp)
  THEN /\ event' = "eval_transport_failure"
       /\ UNCHANGED << session, history_vars, script_runs, appendix >>
  ELSE LET result == Evaluations[resp]
           ticket_key == sha256_hexdigest(ticket_text)
           seen == KeySeen(coaching_keys, ticket_key)
           record == RecordOf(result, current_ticket_label)
           outcome == EvalOutcome(result, seen)
       IN /\ last_result' = result
          /\ last_ticket_text' = ticket_text
          /\ kb_draft' = <<>>
          /\ team_insights' = <<>>
          /\ IF outcome \in {"eval_recorded", "eval_duplicate"}
             THEN /\ coaching_keys' = StoreKey(coaching_keys, ticket_key)
                  /\ coaching_history' =
                       StoreRecord(coaching_history, coaching_keys, ticket_key, record)
             ELSE UNCHANGED << coaching_keys, coaching_history >>
          /\ event' = outcome
          /\ raw_content' = RawContent(resp)
          /\ kb_source' = NoCall
          /\ insights_source' = NoCall
          /\ UNCHANGED << ticket_text, current_ticket_label, script_runs, appendix >>

\* lines 654-660, resp being what the completion call of generate_kb_article does
GenerateKb(resp) ==
  /\ KbOffered(last_result)
  /\ IF TransportFailed(resp)
     THEN /\ event' = "kb_transport_failure"
          /\ UNCHANGED << session, history_vars, script_runs, appendix >>
     ELSE /\ kb_draft' = MarkdownOf(resp)
          /\ kb_source' =
               KbCall(last_ticket_text,
                      DictGet(RootOf(last_result), "kb_article_suggestion", PyStr("")))
          /\ event' = "kb_generated"
          /\ UNCHANGED << ticket_text, last_result, last_ticket_text, coaching_history,
                          coaching_keys, team_insights, current_ticket_label,
                          raw_content, insights_source, script_runs, appendix >>

\* lines 734-737, resp being what the completion call of generate_team_insights does
GenerateInsights(resp) ==
  /\ InsightsOffered
  /\ IF InsightsPromptRaises(coaching_history)
     THEN /\ event' = "insights_raised"
          /\ UNCHANGED << session, history_vars, script_runs, appendix >>
     ELSE IF TransportFailed(resp)
     THEN /\ event' = "insights_transport_failure"
          /\ UNCHANGED << session, history_vars, script_runs, appendix >>
     ELSE /\ team_insights' = MarkdownOf(resp)
          /\ insights_source' = InsightsCall(coaching_history)
          /\ event' = "insights_generated"
          /\ UNCHANGED << ticket_text, last_result, last_ticket_text, kb_draft,
                          coaching_history, coaching_keys, current_ticket_label,
                          raw_content, kb_source, script_runs, appendix >>

Next ==
  \/ \E sample_choice \in {"None"} \cup SampleKeys : LoadSample(sample_choice)
  \/ \E text \in TicketTexts : EditTicket(text)
  \/ \E resp \in EvalResponses : RunEval(resp)
  \/ \E resp \in MarkdownResponses : GenerateKb(resp)
  \/ \E resp \in MarkdownResponses : GenerateInsights(resp)

Spec == Init /\ [][Next]_vars

\* one ticket, evaluated again and again on every completion of DecoderResponses
NextDecoder == \E resp \in DecoderResponses : RunEval(resp)

DecoderSpec == Init /\ [][NextDecoder]_vars

----------------------------------------------------------------------------
(* A session in which several tickets have been recorded and a sample   *)
(* has just been loaded: the state the roll-up of step 3 starts from.   *)

\* how many tickets have been recorded
MaxTally == 4

TallyTicket(i) == <<Ch("ticket"), Ch(DigitChar(i))>>

TallyResults == {AgentIssue, ContentGap, MixedIssue, NoLabel}

InitTally ==
  /\ \E n \in 0..MaxTally : \E pick \in [1..n -> TallyResults] :
       /\ coaching_history = [i \in 1..n |-> RecordOf(pick[i], "Assignment example")]
       /\ coaching_keys = [i \in 1..n |-> sha256_hexdigest(TallyTicket(i))]
  /\ ticket_text = DEFAULT_EXAMPLE
  /\ last_result = PyNone
  /\ last_ticket_text = DEFAULT_EXAMPLE
  /\ kb_draft = <<>>
  /\ team_insights = <<>>
  /\ current_ticket_label = "Assignment example"
  /\ event = "load"
  /\ raw_content = <<>>
  /\ kb_source = NoCall
  /\ insights_source = NoCall
  /\ script_runs = [r \in Runs |-> NotRunning]
  /\ zendesk_payload = MOCK_ZENDESK_TICKET
  /\ normalized_example = normalize_zendesk_ticket(MOCK_ZENDESK_TICKET)

NextTally == \E resp \in MarkdownResponses \cup {NoContent} : GenerateInsights(resp)

TallySpec == InitTally /\ [][NextTally]_vars

----------------------------------------------------------------------------
(* A session that evaluates tickets and drafts KB articles, the model      *)
(* answering with records, with an object that lacks part of the schema,  *)
(* or with text that does not parse.                                       *)

NextKb ==
  \/ \E sample_choice \in {"None"} \cup SampleKeys : LoadSample(sample_choice)
  \/ \E text \in TicketTexts : EditTicket(text)
  \/ \E resp \in KbResponses : RunEval(resp)
  \/ \E resp \in MarkdownResponses : GenerateKb(resp)

KbSpec == Init /\ [][NextKb]_vars

----------------------------------------------------------------------------
(* The run_eval handler statement by statement, for two script runs that  *)
(* are inside it at once on the same st.session_state.  The handler takes *)
(* no lock: a run can be anywhere between its statements when the other   *)
(* run executes one.                                                      *)

AtStatement(r, pc, ticket, result, raw) ==
  [script_runs EXCEPT ![r] = [pc |-> pc, ticket_text |-> ticket, result |-> result, raw |-> raw]]

MoveTo(r, pc) == [script_runs EXCEPT ![r].pc = pc]

\* lines 548-553: the blank check and the call of evaluate_ticket
EvaluateStep(r, resp) ==
  /\ script_runs[r].pc = "idle"
  /\ IF Strip(ticket_text) = <<>>
     THEN /\ event' = "eval_no_ticket"
          /\ UNCHANGED << session, history_vars, script_runs, appendix >>
     ELSE IF TransportFailed(resp)
     THEN /\ event' = "eval_transport_failure"
          /\ UNCHANGED << session, history_vars, script_runs, appendix >>
     ELSE /\ script_runs' =
               AtStatement(r, "evaluated", ticket_text, Evaluations[resp], RawContent(resp))
          /\ UNCHANGED << session, event, history_vars, appendix >>

\* lines 555-558
StoreResultStep(r) ==
  /\ script_runs[r].pc = "evaluated"
  /\ last_result' = script_runs[r].result
  /\ last_ticket_text' = script_runs[r].ticket_text
  /\ kb_draft' = <<>>
  /\ team_insights' = <<>>
  /\ raw_content' = script_runs[r].raw
  /\ kb_source' = NoCall
  /\ insights_source' = NoCall
  /\ script_runs' = MoveTo(r, "stored")
  /\ UNCHANGED << ticket_text, coaching_history, coaching_keys, current_ticket_label, event,
                  appendix >>

\* lines 560-569: up to the test "ticket_key not in coaching_keys"
CheckKeyStep(r) ==
  /\ script_runs[r].pc = "stored"
  /\ LET ticket_key == sha256_hexdigest(script_runs[r].ticket_text)
         outcome == EvalOutcome(script_runs[r].result, KeySeen(coaching_keys, ticket_key))
     IN IF outcome = "eval_recorded"
        THEN /\ script_runs' = MoveTo(r, "checked")
             /\ UNCHANGED event
        ELSE /\ script_runs' = [script_runs EXCEPT ![r] = NotRunning]
             /\ event' = outcome
  /\ UNCHANGED << session, history_vars, appendix >>

\* line 570
AppendKeyStep(r) ==
  /\ script_runs[r].pc = "checked"
  /\ coaching_keys' = Append(coaching_keys, sha256_hexdigest(script_runs[r].ticket_text))
  /\ script_runs' = MoveTo(r, "key_appended")
  /\ UNCHANGED << ticket_text, last_result, last_ticket_text, kb_draft, coaching_history,
                  team_insights, current_ticket_label, event, history_vars, appendix >>

\* lines 571-578
AppendRecordStep(r) ==
  /\ script_runs[r].pc = "key_appended"
  /\ coaching_history' =
       Append(coaching_history, RecordOf(script_runs[r].result, current_ticket_label))
  /\ script_runs' = [script_runs EXCEPT ![r] = NotRunning]
  /\ event' = "eval_recorded"
  /\ UNCHANGED << ticket_text, last_result, last_ticket_text, kb_draft, coaching_keys,
                  team_insights, current_ticket_label, history_vars, appendix >>

NextConcurrent ==
  \E r \in Runs :
    \/ \E resp \in EvalResponses : EvaluateStep(r, resp)
    \/ StoreResultStep(r)
    \/ CheckKeyStep(r)
    \/ AppendKeyStep(r)
    \/ AppendRecordStep(r)

\* two script runs evaluating the transcript of the text area
ConcurrentSpec == Init /\ [][NextConcurrent]_vars

----------------------------------------------------------------------------
(* The appendix normalizing a ticket: normalize_zendesk_ticket on tickets   *)
(* of every shape.                                                          *)

\* how many comments a ticket has at most
MaxComments == 2

\* stands for a key the ticket does not hold
Absent == [t |-> "absent", n |-> 0, s |-> "", kv |-> <<>>, raw |-> <<>>]

\* a dict that holds the given keys unless their value is absent
DictOf(members) ==
  PyDict(SelectSeq(members, LAMBDA m : m[2] # Absent))

\* an optional subject: absent, empty, blank, or text with or without
\* surrounding whitespace
Subjects ==
  {Absent} \cup
  { PyRawStr(x) :
      x \in { <<>>, Text(<<" ">>), <<Ch("Billing")>>, <<Ch(" "), Ch("Billing"), Ch("\n")>> } }

AuthorRoles ==
  {Absent} \cup
  { PyRawStr(x) :
      x \in { Text(<<" ">>), Text(<<"a", "g", "e", "n", "t">>),
              Text(<<" ", "A", "G", " ", "a", "g">>) } }

Bodies ==
  {Absent} \cup
  { PyRawStr(x) :
      x \in { Text(<<" ", "\n">>), <<Ch("hi")>>, Text(<<" ", "a", "\n", "\n", "b", " ">>) } }

Comments ==
  { DictOf(<< <<"author_role", role>>, <<"body", body>> >>) :
      role \in AuthorRoles, body \in Bodies }

RECURSIVE CommentLists(_)
CommentLists(n) ==
  IF n = 0 THEN {<<>>}
  ELSE CommentLists(n - 1)
         \cup {Append(l, c) : l \in {x \in CommentLists(n - 1) : Len(x) = n - 1}, c \in Comments}

Tickets ==
  { DictOf(<< <<"subject", subject>>, <<"comments", PyList(comments)>> >>) :
      subject \in Subjects, comments \in CommentLists(MaxComments) }

InitNormalizer ==
  /\ zendesk_payload \in Tickets
  /\ normalized_example = <<>>
  /\ ticket_text = DEFAULT_EXAMPLE
  /\ last_result = PyNone
  /\ last_ticket_text = <<>>
  /\ kb_draft = <<>>
  /\ coaching_history = <<>>
  /\ coaching_keys = <<>>
  /\ team_insights = <<>>
  /\ current_ticket_label = "Assignment example"
  /\ event = "start"
  /\ raw_content = <<>>
  /\ kb_source = NoCall
  /\ insights_source = NoCall
  /\ script_runs = [r \in Runs |-> NotRunning]

\* lines 892-896
ShowNormalized ==
  /\ normalized_example' = normalize_zendesk_ticket(zendesk_payload)
  /\ event' = "normalized"
  /\ UNCHANGED << session, history_vars, script_runs, zendesk_payload >>

NextNormalizer == ShowNormalized

NormalizerSpec == InitNormalizer /\ [][NextNormalizer]_vars

----------------------------------------------------------------------------
(* Vocabulary of the properties *)

EvalCompleted ==
  {"eval_raised", "eval_decode_failure", "eval_no_summary", "eval_duplicate", "eval_recorded"}

CriterionNames ==
  { "technical_accuracy", "clarity_and_tone", "diagnostic_depth",
    "ownership_and_follow_through", "escalation_judgment" }

Field(v, key) == DictGet(v, key, PyNone)

IsScored(v) ==
  /\ IsDict(v)
  /\ Field(v, "score").t = "int"
  /\ Field(v, "justification").t = "str"

\* v has the shape of the evaluation schema (score ranges and label values
\* are not part of the shape)
WellFormed(v) ==
  /\ IsDict(v)
  /\ IsDict(Field(v, "criteria"))
  /\ {Field(v, "criteria").kv[i][1] : i \in 1..Len(Field(v, "criteria").kv)} = CriterionNames
  /\ \A i \in 1..Len(Field(v, "criteria").kv) : IsScored(Field(v, "criteria").kv[i][2])
  /\ IsScored(Field(v, "overall_rating"))
  /\ IsDict(Field(v, "root_cause"))
  /\ Field(Field(v, "root_cause"), "label").t = "str"
  /\ Field(Field(v, "root_cause"), "explanation").t = "str"
  /\ Field(Field(v, "root_cause"), "kb_article_suggestion").t = "str"
  /\ Field(v, "coaching_summary").t = "str"

\* v is a DecodeFailure: an error description and the raw model text
IsDecodeFailure(v) == IsDict(v) /\ HasKey(v, "error") /\ HasKey(v, "raw_output")

HasSummary(v) == Field(v, "coaching_summary").t = "str" /\ Field(v, "coaching_summary").s # ""

\* the record carries the result's overall score, label and summary
Reflects(record, result) ==
  /\ record.overall_score = Field(Field(result, "overall_rating"), "score")
  /\ record.root_cause = Field(Field(result, "root_cause"), "label")
  /\ record.coaching_summary = Field(result, "coaching_summary")

PositionsOf(keys, key) == {i \in 1..Len(keys) : keys[i] = key}

IsPrefix(a, b) == Len(a) <= Len(b) /\ SubSeq(b, 1, Len(a)) = a

----------------------------------------------------------------------------
(* Properties *)

\* C1: in every reachable session state the seen digests are pairwise
\* distinct and there is exactly one coaching record per seen digest.
C1_NoDuplicateHash ==
  /\ \A i, j \in 1..Len(coaching_keys) : i # j => coaching_keys[i] # coaching_keys[j]
  /\ Len(coaching_history) = Len(coaching_keys)

\* a recorded transcript was evaluated again while two transcripts are on record
C1_Witness == event = "eval_duplicate" /\ Len(coaching_keys) = 2

C4_HistoryAppendOnly == [][IsPrefix(coaching_history, coaching_history')]_vars

\* a second record was appended after the first
C4_Witness == event = "eval_recorded" /\ Len(coaching_history) = 2

\* C5: a step of one of the three handlers in which the completion call
\* fails leaves the whole session state as it was.
C5_TransportFailureLeavesState ==
  [][ ( \/ RunEval(TransportFailure)
        \/ GenerateKb(TransportFailure)
        \/ GenerateInsights(TransportFailure) ) => UNCHANGED session ]_vars

\* the KB call failed in a session that holds a result, a record and a
\* team-insights text
C5_Witness ==
  /\ event = "kb_transport_failure"
  /\ coaching_history # <<>>
  /\ team_insights # <<>>

\* C6 as stated: whatever the decoder returns is a record of the evaluation
\* schema or a DecodeFailure.
C6_NonSchemaIsDecodeFailure ==
  event \in EvalCompleted => (WellFormed(last_result) \/ IsDecodeFailure(last_result))

\* C7: the raw text of a DecodeFailure is the completion text as received.
C7_FailureKeepsRawText ==
  (event \in EvalCompleted /\ IsDecodeFailure(last_result)) =>
     Field(last_result, "raw_output") = PyRawStr(raw_content)

\* a DecodeFailure for a completion that cleaning would have changed
C7_Witness ==
  /\ event \in EvalCompleted
  /\ IsDecodeFailure(last_result)
  /\ StartsWith(Strip(raw_content), FenceMarker)
  /\ Cleaned(raw_content) # raw_content

\* C8: a schema record serialized, put in a json fence and surrounded by
\* whitespace decodes to the record itself, and what is parsed is exactly
\* its serialization.
C8_FencedRoundTrip ==
  event \in EvalCompleted =>
    \A r \in SchemaRecords : \A pad \in Paddings(MaxPadding) :
      \A fenced \in JsonFencedForms(Dumps(r)) :
        raw_content = pad \o fenced \o pad =>
          /\ last_result = r
          /\ Cleaned(raw_content) = Dumps(r)

\* a padded, json-fenced record was decoded
C8_Witness ==
  /\ event \in EvalCompleted
  /\ raw_content = Newline \o JsonFenced(Dumps(OutOfRange)) \o Newline
  /\ last_result = OutOfRange

\* C9 as stated: the KB button can be pressed exactly when the current result
\* is a record of the schema whose label is content_gap or mixed and whose
\* suggestion is not empty.
C9_KbGate ==
  (ENABLED (\E resp \in MarkdownResponses : GenerateKb(resp))) <=>
    /\ WellFormed(last_result)
    /\ Field(Field(last_result, "root_cause"), "label").s \in {"content_gap", "mixed"}
    /\ Field(Field(last_result, "root_cause"), "kb_article_suggestion").s # ""

RECURSIVE SumOver(_, _)
SumOver(counts, keys) ==
  IF keys = {} THEN 0
  ELSE LET k == CHOOSE x \in keys : TRUE
       IN counts[k] + SumOver(counts, keys \ {k})

\* line 854: sum(root_counts_all.values())
total_hist == SumOver(root_counts, DOMAIN root_counts)

\* C10: every label's count is the number of records with that root cause,
\* and the counts add up to the number of records.
C10_ExactTally ==
  /\ \A i \in 1..Len(coaching_history) :
       CountOf(root_counts, coaching_history[i].root_cause) =
         Cardinality({j \in 1..Len(coaching_history) :
                        coaching_history[j].root_cause = coaching_history[i].root_cause})
  /\ \A k \in DOMAIN root_counts :
       \E i \in 1..Len(coaching_history) : coaching_history[i].root_cause = k
  /\ total_hist = Len(coaching_history)

\* the roll-up of root causes agent_performance, content_gap, content_gap, mixed
C10_Witness ==
  /\ Len(coaching_history) = 4
  /\ [i \in 1..4 |-> coaching_history[i].root_cause.s] =
       <<"agent_performance", "content_gap", "content_gap", "mixed">>
  /\ CountOf(root_counts, PyStr("agent_performance")) = 1
  /\ CountOf(root_counts, PyStr("content_gap")) = 2
  /\ CountOf(root_counts, PyStr("mixed")) = 1
  /\ event = "insights_generated"

\* the three root-cause labels of the schema (line 173)
RootCauseLabels == {PyStr("agent_performance"), PyStr("content_gap"), PyStr("mixed")}

\* C11 as stated: the roll-up has no key besides the three labels and
\* "unknown", and "unknown" counts every record whose root cause is none of
\* the three labels.
C11_UnknownBucket ==
  /\ DOMAIN root_counts \subseteq RootCauseLabels \cup {PyStr("unknown")}
  /\ CountOf(root_counts, PyStr("unknown")) =
       Cardinality({i \in 1..Len(coaching_history) :
                      coaching_history[i].root_cause \notin RootCauseLabels})

\* the digests on record, as a set
SeenDigests == {coaching_keys[i] : i \in 1..Len(coaching_keys)}

\* C12 as stated: however the statements of two evaluations of one transcript
\* interleave, no digest is on record twice and the history never holds more
\* records than there are transcripts on record.
C12_AtomicCheckAndAppend ==
  /\ Cardinality(SeenDigests) = Len(coaching_keys)
  /\ Len(coaching_history) <= Cardinality(SeenDigests)

SoftViolation(v) ==
  /\ WellFormed(v)
  /\ \/ \E i \in 1..Len(Field(v, "criteria").kv) :
          Field(Field(v, "criteria").kv[i][2], "score").n \notin 1..5
     \/ Field(Field(v, "overall_rating"), "score").n \notin 1..5
     \/ Field(Field(v, "root_cause"), "label") \notin RootCauseLabels

\* the completions that present the record r
Presentations(r) ==
  {pad \o w \o pad : pad \in Paddings(MaxPadding), w \in Wrapped(Dumps(r))}

\* C14: a completion that presents a record with a score outside 1..5 or a
\* label outside the three variants decodes to that record, which is not a
\* DecodeFailure, and when the evaluation records it the stored overall score
\* and root cause are the ones of the record.
C14_SoftViolationsPassThrough ==
  event \in EvalCompleted =>
    \A r \in {x \in SchemaRecords : SoftViolation(x)} :
      raw_content \in Presentations(r) =>
        /\ last_result = r
        /\ ~IsDecodeFailure(last_result)
        /\ event \notin {"eval_raised", "eval_decode_failure"}
        /\ event = "eval_recorded" =>
             LET stored == coaching_history[Len(coaching_history)]
             IN /\ stored.overall_score = Field(Field(r, "overall_rating"), "score")
                /\ stored.root_cause = Field(Field(r, "root_cause"), "label")

\* a record with overall score 9 and label product_bug was recorded
C14_Witness ==
  /\ event = "eval_recorded"
  /\ last_result = OutOfRange
  /\ SoftViolation(last_result)
  /\ coaching_history[Len(coaching_history)].overall_score = PyInt(9)
  /\ coaching_history[Len(coaching_history)].root_cause = PyStr("product_bug")

\* the subject and the comments of a ticket, as the normalizer reads them
SubjectOf(ticket) == DictGet(ticket, "subject", PyRawStr(<<>>)).raw

BodyOf(c) == DictGet(c, "body", PyRawStr(<<>>)).raw

HasBody(c) == Strip(BodyOf(c)) # <<>>

\* the blocks C15 describes: the subject block when the trimmed subject is
\* not empty, then one block for each comment whose trimmed body is not empty
StatedBlocks(ticket) ==
  LET kept == SelectSeq(ItemsOf(DictGet(ticket, "comments", PyList(<<>>))), HasBody)
  IN (IF Strip(SubjectOf(ticket)) # <<>> THEN <<SubjectPrefix \o SubjectOf(ticket)>> ELSE <<>>)
       \o [i \in 1..Len(kept) |->
             Capitalize(AuthorRole(kept[i])) \o <<Ch(":"), Ch(" ")>> \o Strip(BodyOf(kept[i]))]

\* C15 as stated: the normalized transcript is the stated blocks joined by
\* blank lines, and it is empty when the subject is empty and no comment has
\* a body.
C15_NormalizerBlocks ==
  event = "normalized" =>
    /\ normalized_example = Join(<<Ch("\n"), Ch("\n")>>, StatedBlocks(zendesk_payload))
    /\ (SubjectOf(zendesk_payload) = <<>> /\ StatedBlocks(zendesk_payload) = <<>>) =>
         normalized_example = <<>>

\* C16: a team-insights text that is not empty is the answer to a call made
\* on exactly the current coaching history; every evaluation that completes
\* leaves the team-insights text empty; the history changes only in a step
\* that completes an evaluation.
C16_InsightsMatchHistory ==
  /\ [](team_insights # <<>> => insights_source = InsightsCall(coaching_history))
  /\ [][ /\ event' \in EvalCompleted => team_insights' = <<>>
         /\ coaching_history' # coaching_history => event' \in EvalCompleted ]_vars

\* a report on a history of two records, generated after the report on the
\* one-record history was cleared by the second evaluation
C16_Witness ==
  /\ event = "insights_generated"
  /\ team_insights # <<>>
  /\ Len(coaching_history) = 2
  /\ insights_source = InsightsCall(coaching_history)

\* C17 as stated: a KB draft that is not empty goes with a current result
\* that is a record of the schema labelled content_gap or mixed with a
\* suggestion, and it is the answer to a call made on that suggestion and on
\* the transcript of that result; loading a sample and completing an
\* evaluation leave the draft empty, and the draft does not outlive the
\* result or the transcript it was generated from.
C17_KbDraftProvenance ==
  /\ [](kb_draft # <<>> =>
          /\ WellFormed(last_result)
          /\ Field(Field(last_result, "root_cause"), "label").s \in {"content_gap", "mixed"}
          /\ Field(Field(last_result, "root_cause"), "kb_article_suggestion").s # ""
          /\ kb_source = KbCall(last_ticket_text,
                                Field(Field(last_result, "root_cause"), "kb_article_suggestion")))
  /\ [][ /\ event' \in EvalCompleted \cup {"load"} => kb_draft' = <<>>
         /\ (last_result' # last_result \/ last_ticket_text' # last_ticket_text) =>
              kb_draft' = <<>> ]_vars

\* the text is empty or made of whitespace characters only
Blank(text) == \A i \in 1..Len(text) : ~text[i].q /\ text[i].c \in PyWhitespace

\* C18: pressing "Evaluate agent performance" on a blank transcript leaves
\* the session state and the record of the last completion as they were,
\* whatever the gateway would have answered, a failure included.
C18_BlankTicketChangesNothing ==
  [][ ((\E resp \in EvalResponses : RunEval(resp)) /\ Blank(ticket_text)) =>
        /\ UNCHANGED session
        /\ UNCHANGED history_vars
        /\ event' = "eval_no_ticket" ]_vars

\* an evaluation was requested on a whitespace transcript in a session that
\* holds a result, a KB draft, a team-insights text and a record
C18_Witness ==
  /\ event = "eval_no_ticket"
  /\ ticket_text = Text(<<" ", "\n">>)
  /\ last_result # PyNone
  /\ kb_draft # <<>>
  /\ team_insights # <<>>
  /\ coaching_history # <<>>

====
